---- MODULE Spec2Model ----
(***************************************************************************)
(* Model of backend/main.py: the knowledge-base cache (KB, UI, MTIME), its *)
(* loader load_json, the scorer top2_match and the three request handlers  *)
(* config, health and chat, served by concurrent worker threads.           *)
(*                                                                         *)
(* Text is modelled character by character: a Python str is a sequence of  *)
(* one-character strings; "NL" and "CR" stand for the line-feed and the    *)
(* carriage-return characters.                                             *)
(***************************************************************************)
EXTENDS Integers, Sequences, FiniteSets, TLC

VARIABLES
    fileExists,   \* DATA_PATH names an existing file
    fileMtime,    \* its modification time (kept while the file is away)
    fileDoc,      \* its content: an index into Docs
    KB,           \* global KB: the list of entries
    UI,           \* global UI: the ui mapping
    MTIME,        \* global MTIME
    kbMt,         \* history: modification time of the file version KB was parsed from
    th,           \* per worker thread: position in its handler and the handler's locals
    nreq,         \* number of requests started so far
    nl            \* harness applying norm_list to one input

vars == <<fileExists, fileMtime, fileDoc, KB, UI, MTIME, kbMt, th, nreq, nl>>

-----------------------------------------------------------------------------
(* Bounds *)

MaxMtime == 2
MaxRequests == 2
MaxStrLen == 2
MaxListLen == 2

-----------------------------------------------------------------------------
(* Characters and strings *)

WS == {" ", "NL", "CR"}

\* str.lower() on the characters the model uses
LowerChar(c) ==
    CASE c = "A" -> "a"
      [] c = "Q" -> "q"
      [] c = "S" -> "s"
      [] c = "T" -> "t"
      [] c = "X" -> "x"
      [] OTHER -> c

Lower(s) == [i \in 1..Len(s) |-> LowerChar(s[i])]

MinOf(S) == CHOOSE x \in S : \A y \in S : x <= y

\* str.strip(): leading and trailing whitespace removed
Strip(s) ==
    LET keep == {i \in 1..Len(s) : s[i] \notin WS}
        first == CHOOSE i \in keep : \A j \in 1..(i - 1) : s[j] \in WS
        last == CHOOSE i \in keep : \A j \in (i + 1)..Len(s) : s[j] \in WS
    IN  IF keep = {} THEN <<>> ELSE SubSeq(s, first, last)

\* Python's  k in u  on strings
IsSub(k, u) ==
    \E i \in 0..(Len(u) - Len(k)) : SubSeq(u, i + 1, i + Len(k)) = k

Rep(c, n) == [i \in 1..n |-> c]

RECURSIVE JoinWith(_, _)
\* sep.join(l)
JoinWith(sep, l) ==
    IF Len(l) = 0 THEN <<>>
    ELSE IF Len(l) = 1 THEN l[1]
    ELSE l[1] \o sep \o JoinWith(sep, Tail(l))

-----------------------------------------------------------------------------
(* JSON values reaching norm_list: absent/null, a string, a number, or a   *)
(* list of such scalars.                                                   *)

JNone == [t |-> "none", s |-> <<>>, n |-> 0, l |-> <<>>]
JStr(s) == [t |-> "str", s |-> s, n |-> 0, l |-> <<>>]
JNum(n) == [t |-> "num", s |-> <<>>, n |-> n, l |-> <<>>]
JList(l) == [t |-> "list", s |-> <<>>, n |-> 0, l |-> l]

Digit == <<"0", "1", "2", "3", "4", "5", "6", "7", "8", "9">>

\* str(v) for a scalar
Str(v) ==
    CASE v.t = "str" -> v.s
      [] v.t = "num" -> <<Digit[v.n + 1]>>
      [] OTHER -> <<"N", "o", "n", "e">>

\* Python truthiness of x
Truthy(x) ==
    CASE x.t = "none" -> FALSE
      [] x.t = "str" -> Len(x.s) > 0
      [] x.t = "num" -> x.n # 0
      [] OTHER -> Len(x.l) > 0

RECURSIVE NormElems(_)
\* the loop of norm_list over a list
NormElems(l) ==
    IF Len(l) = 0 THEN <<>>
    ELSE LET v == Head(l)
             s == Lower(Strip(Str(v)))
         IN  IF v.t = "none" THEN NormElems(Tail(l))
             ELSE IF Len(s) > 0 THEN <<s>> \o NormElems(Tail(l))
             ELSE NormElems(Tail(l))

norm_list(x) ==
    IF ~Truthy(x) THEN <<>>
    ELSE IF x.t = "str" THEN <<Lower(Strip(x.s))>>
    ELSE IF x.t = "list" THEN NormElems(x.l)
    ELSE LET s == Lower(Strip(Str(x)))
         IN  IF Len(s) > 0 THEN <<s>> ELSE <<>>

\* a norm_list result handed to norm_list again: a list of strings
AsList(r) == JList([i \in 1..Len(r) |-> JStr(r[i])])

-----------------------------------------------------------------------------
(* split_into_chunks *)

MinChunkLen == 80

\* text.replace("\r\n", "\n"): every CR that an NL follows is dropped
ReplaceCRLF(s) ==
    LET pairs == [i \in 1..Len(s) |-> <<s[i], IF i < Len(s) THEN s[i + 1] ELSE "">>]
        Kept(p) == ~(p[1] = "CR" /\ p[2] = "NL")
        kept == SelectSeq(pairs, Kept)
    IN  [i \in 1..Len(kept) |-> kept[i][1]]

RECURSIVE Ascending(_)
\* the numbers of a set in increasing order
Ascending(S) ==
    IF S = {} THEN <<>> ELSE <<MinOf(S)>> \o Ascending(S \ {MinOf(S)})

\* re.split(r"\n{2,}", t) for a stripped t: the parts between the runs of two
\* or more NL
SplitBlank(t) ==
    LET InRun(i) == /\ t[i] = "NL"
                    /\ \/ (i > 1 /\ t[i - 1] = "NL")
                       \/ (i < Len(t) /\ t[i + 1] = "NL")
        starts == {i \in 1..Len(t) : ~InRun(i) /\ (i = 1 \/ InRun(i - 1))}
        ends == {i \in 1..Len(t) : ~InRun(i) /\ (i = Len(t) \/ InRun(i + 1))}
        from == Ascending(starts)
        to == Ascending(ends)
    IN  [k \in 1..Len(from) |-> SubSeq(t, from[k], to[k])]

RECURSIVE KeepLong(_)
\* the loop over parts: strip each, drop those shorter than 80 characters
KeepLong(parts) ==
    IF Len(parts) = 0 THEN <<>>
    ELSE LET p == Strip(Head(parts))
         IN  IF Len(p) < MinChunkLen THEN KeepLong(Tail(parts))
             ELSE <<p>> \o KeepLong(Tail(parts))

split_into_chunks(text) ==
    IF Len(text) = 0 THEN <<>>
    ELSE LET t == Strip(ReplaceCRLF(text))
             chunks == KeepLong(SplitBlank(t))
         IN  IF Len(chunks) > 0 THEN chunks ELSE <<t>>

-----------------------------------------------------------------------------
(* extract_keywords *)

\* characters in code-point order ("e~" is schwa, "g~" g-breve, "i~" dotless i)
CodeOrder ==
    <<"NL", "CR", " ", "0", "1", "2", "3", "4", "5", "6", "7", "8", "9",
      "A", "N", "Q", "S", "X",
      "a", "b", "e", "f", "g", "i", "l", "n", "o", "q", "r", "s", "t", "u",
      "x", "y", "g~", "i~", "e~">>

Ord(c) == CHOOSE i \in 1..Len(CodeOrder) : CodeOrder[i] = c

\* the class [a-z...0-9] of the title pattern
TokenChars ==
    {"0", "1", "2", "3", "4", "5", "6", "7", "8", "9",
     "a", "b", "e", "f", "g", "i", "l", "n", "o", "q", "r", "s", "t", "u",
     "x", "y", "g~", "i~", "e~"}

MinTokenLen == 3

RECURSIVE FindTokens(_, _)
\* re.findall(r"[a-z...0-9]{3,}", s): the maximal runs of at least 3 characters
FindTokens(s, cur) ==
    IF Len(s) = 0
    THEN IF Len(cur) >= MinTokenLen THEN {cur} ELSE {}
    ELSE IF s[1] \in TokenChars THEN FindTokens(Tail(s), Append(cur, s[1]))
    ELSE (IF Len(cur) >= MinTokenLen THEN {cur} ELSE {}) \cup FindTokens(Tail(s), <<>>)

\* the trigger strings of KEYBANK that the modelled documents can contain
\* (auditory: qulaq, ses, s-schwa-s, fen, toy; smell: iy; sleep: yuxu)
KEYBANK ==
    { <<"q", "u", "l", "a", "q">>, <<"s", "e", "s">>, <<"s", "e~", "s">>,
      <<"f", "e", "n">>, <<"t", "o", "y">>, <<"i", "y">>, <<"y", "u", "x", "u">> }

Qulaq == <<"q", "u", "l", "a", "q">>
Aghlay == <<"a", "g~", "l", "a", "y">>
Aglay == <<"a", "g", "l", "a", "y">>
Phrase1 ==
    Qulaq \o <<"l", "a", "r", "i~", "n", "i~", " ", "t", "u", "t", "u", "b", " ">>
          \o Aghlay \o <<"i~", "r">>
Phrase2 ==
    Qulaq \o <<"l", "a", "r", "i", "n", "i", " ", "t", "u", "t", "u", "b", " ">>
          \o Aglay \o <<"i", "r">>

\* s < t in Python's string order
StrLess(s, t) ==
    \E k \in 0..Len(s) :
        /\ k <= Len(t)
        /\ \A i \in 1..k : s[i] = t[i]
        /\ \/ (k = Len(s) /\ k < Len(t))
           \/ (k < Len(s) /\ k < Len(t) /\ Ord(s[k + 1]) < Ord(t[k + 1]))

RECURSIVE Sorted(_)
\* sorted(kws) of a set of strings
Sorted(S) ==
    IF S = {} THEN <<>>
    ELSE LET m == CHOOSE x \in S : \A y \in S \ {x} : StrLess(x, y)
         IN  <<m>> \o Sorted(S \ {m})

extract_keywords(title, text) ==
    LET title_l == Lower(title)
        text_l == Lower(text)
        words == FindTokens(title_l, <<>>)
        bank == {v \in KEYBANK : IsSub(v, title_l) \/ IsSub(v, text_l)}
        phrases == IF IsSub(Qulaq, text_l) /\ (IsSub(Aghlay, text_l) \/ IsSub(Aglay, text_l))
                   THEN {Phrase1, Phrase2} ELSE {}
    IN  Sorted(words \cup bank \cup phrases)

-----------------------------------------------------------------------------
(* Entries, build_query_text, keyword_overlap *)

NoneV == "None"

\* the value standing in a slot that holds None instead of an entry
NoItem ==
    [id |-> <<>>, parent_id |-> NoneV, title |-> <<>>, topic |-> <<>>,
     keywords |-> <<>>, text |-> <<>>, source |-> NoneV, image |-> NoneV]

QueryTextLen == 800

build_query_text(item) ==
    LET title == Lower(item.title)
        topic == Lower(item.topic)
        keywords == JoinWith(<<" ">>, norm_list(AsList(item.keywords)))
        text == SubSeq(Lower(item.text), 1, IF Len(item.text) < QueryTextLen
                                             THEN Len(item.text) ELSE QueryTextLen)
    IN  Strip(title \o <<" ">> \o topic \o <<" ">> \o keywords \o <<" ">> \o text)

RECURSIVE keyword_overlap(_, _)
keyword_overlap(user_text, keywords) ==
    IF Len(keywords) = 0 THEN 0
    ELSE (IF Len(Head(keywords)) > 0 /\ IsSub(Head(keywords), user_text) THEN 1 ELSE 0)
         + keyword_overlap(user_text, Tail(keywords))

-----------------------------------------------------------------------------
(* top2_match *)

OVERLAP_WEIGHT == 4
BONUS_CAP == 16
PENALTY == 5

\* the ratios fuzz can return when neither string contains the other and the
\* two share a character; the model leaves the choice among them open
MidRatios == {76, 87}

\* what max(fuzz.token_set_ratio(u, q), fuzz.partial_ratio(u, q)) can be:
\* 100 when one string contains the other, 0 when they share no character
FuzzMax(u, q) ==
    IF IsSub(u, q) \/ IsSub(q, u) THEN {100}
    ELSE IF \A i \in 1..Len(u) : \A j \in 1..Len(q) : u[i] # q[j] THEN {0}
    ELSE MidRatios

RECURSIVE Candidates(_, _, _)
\* lines 150-156 of the loop over KB, from entry i on: the entries that are
\* scored, each with its overlap and its query text; an entry whose query
\* text is empty is skipped
Candidates(kb, user_text, i) ==
    IF i > Len(kb) THEN <<>>
    ELSE LET item == kb[i]
             kws == norm_list(AsList(item.keywords))
             overlap == keyword_overlap(user_text, kws)
             q == build_query_text(item)
         IN  IF Len(q) = 0 THEN Candidates(kb, user_text, i + 1)
             ELSE <<[item |-> item, overlap |-> overlap, q |-> q]>>
                  \o Candidates(kb, user_text, i + 1)

RECURSIVE FuzzChoices(_, _, _)
\* the sequences base with base[k] a ratio fuzz can return for candidate k,
\* from candidate i on
FuzzChoices(cands, user_text, i) ==
    IF i > Len(cands) THEN {<<>>}
    ELSE {<<b>> \o r : b \in FuzzMax(user_text, cands[i].q),
                       r \in FuzzChoices(cands, user_text, i + 1)}

\* lines 160-167: the score of one entry from its base ratio and its overlap
EntryScore(b, overlap) ==
    LET bonus == IF overlap * OVERLAP_WEIGHT < BONUS_CAP
                 THEN overlap * OVERLAP_WEIGHT ELSE BONUS_CAP
    IN  b + bonus - (IF overlap = 0 THEN PENALTY ELSE 0)

\* lines 158-169: the list scored, base[k] being what fuzz returns for candidate k
Scored(cands, base) ==
    [k \in 1..Len(cands) |->
        [score |-> EntryScore(base[k], cands[k].overlap), item |-> cands[k].item,
         overlap |-> cands[k].overlap]]

RECURSIVE InsertDesc(_, _)
InsertDesc(x, s) ==
    IF Len(s) = 0 THEN <<x>>
    ELSE IF Head(s).score <= x.score THEN <<x>> \o s
    ELSE <<Head(s)>> \o InsertDesc(x, Tail(s))

\* scored.sort(key=score) without reverse=True
SortAscending(s) ==
    [k \in 1..Len(s) |->
        LET by == CHOOSE f \in [1..Len(s) -> 1..Len(s)] :
                     /\ \A i, j \in 1..Len(s) : i # j => f[i] # f[j]
                     /\ \A i, j \in 1..Len(s) :
                            i < j => \/ s[f[i]].score < s[f[j]].score
                                     \/ (s[f[i]].score = s[f[j]].score /\ f[i] < f[j])
        IN  s[by[k]]]

RECURSIVE SortDesc(_)
\* scored.sort(key=score, reverse=True): stable, descending
SortDesc(s) ==
    IF Len(s) <= 1 THEN s ELSE InsertDesc(Head(s), SortDesc(Tail(s)))

\* lines 173-174: slot k of the result
Slot(scored, k) ==
    IF Len(scored) >= k
    THEN [score |-> scored[k].score, has |-> TRUE, item |-> scored[k].item]
    ELSE [score |-> 0, has |-> FALSE, item |-> NoItem]

\* top2_match once fuzz has returned base for the candidates
top2_match(cands, base) ==
    LET scored == SortDesc(Scored(cands, base))
    IN  [scored |-> scored, top1 |-> Slot(scored, 1), top2 |-> Slot(scored, 2)]

-----------------------------------------------------------------------------
(* Responses *)

THRESHOLD == 80
MARGIN == 4

\* the two fixed texts, each standing as one symbol
PROMPT_TEXT == <<"Zehmet olmasa sualinizi yazin.">>
CLARIFY_TEXT == <<"Sualinizi deqiq tutmadim. ...">>

ConfigKeys == <<"botName", "subtitle", "welcomeMessage", "inputPlaceholder", "buttonText">>
Absent == "-"
EmptyUI == [k \in {ConfigKeys[i] : i \in 1..Len(ConfigKeys)} |-> Absent]
\* the literal fallbacks of config(), one per key
ConfigDefault ==
    [botName |-> "Autism Support Chatbot", subtitle |-> "Resmi destek",
     welcomeMessage |-> "Salam.", inputPlaceholder |-> "Mesajinizi yazin...",
     buttonText |-> "Chat"]

NoTop == [score |-> 0, has |-> FALSE, item |-> NoItem]
NoResp ==
    [status |-> "-", err |-> "-", answer |-> <<>>, used_context |-> FALSE,
     sources |-> <<>>, cfg |-> <<>>, count |-> 0]

PromptResp == [NoResp EXCEPT !.status = "ok", !.answer = PROMPT_TEXT]
ClarifyResp == [NoResp EXCEPT !.status = "ok", !.answer = CLARIFY_TEXT]
AnswerResp(s1, item1) ==
    [NoResp EXCEPT !.status = "ok", !.answer = item1.text, !.used_context = TRUE,
                   !.sources = <<[id |-> item1.id, title |-> item1.title,
                                  source |-> item1.source, score |-> s1,
                                  parent_id |-> item1.parent_id]>>]
ErrorResp(e) == [NoResp EXCEPT !.status = "error", !.err = e]

\* the decision without the margin test
DecideNoMargin(top1, top2) ==
    IF top1.has /\ top1.score >= THRESHOLD
    THEN AnswerResp(top1.score, top1.item)
    ELSE ClarifyResp

\* lines 270-294: the decision on what top2_match returned
Decide(top1, top2) ==
    IF top1.has /\ top1.score >= THRESHOLD /\ (top1.score - top2.score) >= MARGIN
    THEN AnswerResp(top1.score, top1.item)
    ELSE ClarifyResp

-----------------------------------------------------------------------------
(* The documents the backing file can hold *)

Ses == <<"s", "e", "s">>
Fen == <<"f", "e", "n">>
Toy == <<"t", "o", "y">>
ExpertArticle == <<"e", "x", "p", "e", "r", "t", "_", "a", "r", "t", "i", "c", "l", "e">>

\* 3 characters, exactly 80 characters
ParaShort == Qulaq \o <<" ">> \o Aglay
ParaB == Fen \o <<" ">> \o Rep("y", 76)

Item(id, title, topic, keywords, text) ==
    [isdict |-> TRUE, id |-> id, title |-> title, topic |-> topic,
     keywords |-> keywords, text |-> text, description |-> <<>>, image |-> NoneV]
Problem(id, title, description, image) ==
    [isdict |-> TRUE, id |-> id, title |-> title, topic |-> <<>>,
     keywords |-> JNone, text |-> <<>>, description |-> description, image |-> image]
\* a list element that is not an object
NotADict == [Item(<<>>, <<>>, <<>>, JNone, <<>>) EXCEPT !.isdict = FALSE]

UIOf(v) == [k \in DOMAIN EmptyUI |-> v]

ItemA1 ==
    Item(<<"a1">>, Qulaq, <<>>,
         JList(<<JStr(<<"S", "e", "s", " ">>), JNone, JStr(<<" ">>)>>),
         <<"C", "a", "v", "a", "b", " ", "A">>)
ItemEmpty == Item(<<"b1">>, <<>>, <<>>, JNone, <<>>)
ItemB2 == Item(<<"b2">>, Ses, <<>>, JStr(Ses), <<"x">>)
ProblemP1 ==
    Problem(<<"p1">>, <<"Q", "u", "l", "a", "q", " ", "1", "2", " ", "f", "e", "n">>,
            ParaShort \o <<"CR", "NL", "CR", "NL">> \o ParaB \o <<"NL", "NL", "NL">>
                      \o Ses \o <<"NL">>,
            "img1")
ProblemP2 == Problem(<<"p2">>, Toy, <<" ">> \o Toy \o <<"NL", "NL">> \o Toy, NoneV)

Doc(parses, isdict, ui, items, problems) ==
    [parses |-> parses, isdict |-> isdict, ui |-> ui, items |-> items,
     problems |-> problems]

Docs ==
    << Doc(TRUE, TRUE, UIOf("A"), <<ItemA1>>, <<>>),
       Doc(TRUE, TRUE, [EmptyUI EXCEPT !.botName = "B"], <<ItemEmpty, ItemB2>>,
           <<ProblemP1, ProblemP2>>),
       Doc(FALSE, TRUE, EmptyUI, <<>>, <<>>),                 \* not JSON
       Doc(TRUE, FALSE, EmptyUI, <<>>, <<>>),                 \* a JSON list
       Doc(TRUE, TRUE, UIOf("C"), <<ItemB2>>, <<ProblemP2, NotADict>>) >>

DocIds == 1..Len(Docs)

\* req.message of the requests
Messages ==
    { <<" ", "NL">>, <<" ", "S", "e", "s">>, <<"T", "o", "y", " ", "x", " ">>, <<"0">> }

\* the messages of the requests served concurrently
SomeMessages == { <<" ", "NL">>, <<" ", "S", "e", "s">> }

Kinds == {"config", "health", "chat"}

-----------------------------------------------------------------------------
(* load_json: building the entries *)

\* lines 200-207
ItemEntry(it) ==
    [id |-> it.id, parent_id |-> NoneV, title |-> it.title, topic |-> it.topic,
     keywords |-> norm_list(it.keywords), text |-> it.text, source |-> "items",
     image |-> NoneV]

\* lines 217-229: the entries of one problem
ProblemEntries(p) ==
    LET chunks == split_into_chunks(p.description)
    IN  [i \in 1..Len(chunks) |->
            [id |-> <<"problem_">> \o p.id \o <<"_chunk_", Digit[i]>>,
             parent_id |-> p.id[1], title |-> p.title, topic |-> ExpertArticle,
             keywords |-> extract_keywords(p.title, chunks[i]), text |-> chunks[i],
             source |-> "problems", image |-> p.image]]

RECURSIVE ItemsLoop(_)
ItemsLoop(items) ==
    IF Len(items) = 0 THEN <<>> ELSE <<ItemEntry(Head(items))>> \o ItemsLoop(Tail(items))

RECURSIVE ProblemsLoop(_)
ProblemsLoop(problems) ==
    IF Len(problems) = 0 THEN <<>>
    ELSE ProblemEntries(Head(problems)) \o ProblemsLoop(Tail(problems))

\* lines 196-229 raise AttributeError at an element that is not an object
BuildRaises(data) ==
    \/ \E i \in 1..Len(data.items) : ~data.items[i].isdict
    \/ \E i \in 1..Len(data.problems) : ~data.problems[i].isdict

\* lines 196-229: the local list kb
BuildKB(data) == ItemsLoop(data.items) \o ProblemsLoop(data.problems)

-----------------------------------------------------------------------------
(* State *)

\* the worker threads of the pool; a request goes to the first free one
Threads == {1, 2}

\* a worker thread between requests
Idle ==
    [pc |-> "idle", kind |-> "-", msg |-> <<>>,
     mt |-> 0,            \* load_json's local mtime
     data |-> 0,          \* load_json's local data: the document parsed
     dataMt |-> 0,        \* history: modification time of the file version parsed
     lj |-> "-",          \* how this request's load_json call ended
     opened |-> FALSE,    \* this call opened the file
     changed |-> {},      \* the globals whose value this call's assignments changed
     gap |-> FALSE,       \* this request found the file missing, and it has not reappeared
     resp |-> NoResp,     \* the handler's return value
     user_text |-> <<>>, snap |-> <<>>, scored |-> <<>>,
     top1 |-> NoTop, top2 |-> NoTop]

NlIdle == [pc |-> "off", x |-> JNone, out |-> <<>>, again |-> <<>>]

Init ==
    /\ fileExists = TRUE
    /\ fileMtime = 1
    /\ fileDoc = 1
    /\ KB = <<>>
    /\ UI = EmptyUI
    /\ MTIME = 0
    /\ kbMt = 0
    /\ th = [t \in Threads |-> Idle]
    /\ nreq = 0
    /\ nl = NlIdle

Set(t, f) == [th EXCEPT ![t] = f]
Globals == <<KB, UI, MTIME, kbMt>>
File == <<fileExists, fileMtime, fileDoc>>

-----------------------------------------------------------------------------
(* The backing file, changed from outside the program *)

\* the file has reappeared: no request is in a gap any longer
Reappeared == [t \in Threads |-> [th[t] EXCEPT !.gap = FALSE]]

WriteFile(d) ==
    /\ fileMtime < MaxMtime
    /\ fileExists' = TRUE
    /\ fileMtime' = fileMtime + 1
    /\ fileDoc' = d
    /\ th' = IF fileExists THEN th ELSE Reappeared
    /\ UNCHANGED <<Globals, nreq, nl>>

RemoveFile ==
    /\ fileExists
    /\ fileExists' = FALSE
    /\ UNCHANGED <<fileMtime, fileDoc, Globals, th, nreq, nl>>

\* the same file comes back, with the modification time it had
RestoreFile ==
    /\ ~fileExists
    /\ fileExists' = TRUE
    /\ th' = Reappeared
    /\ UNCHANGED <<fileMtime, fileDoc, Globals, nreq, nl>>

-----------------------------------------------------------------------------
(* A request arrives; every handler calls load_json() first *)

Start(t, kind, msg) ==
    /\ th[t].pc \in {"idle", "done"}
    /\ \A o \in Threads : o < t => th[o].pc \notin {"idle", "done"}
    /\ nreq < MaxRequests
    /\ nreq' = nreq + 1
    /\ th' = Set(t, [Idle EXCEPT !.pc = "stat", !.kind = kind,
                        !.msg = IF kind = "chat" THEN msg ELSE <<>>])
    /\ UNCHANGED <<File, Globals, nl>>

\* where the handler goes on when load_json returns
Body(t) ==
    CASE th[t].kind = "config" -> "config"
      [] th[t].kind = "health" -> "health"
      [] OTHER -> "chat"

\* load_json raises: the request ends with the error
Raise(t, e) ==
    Set(t, [th[t] EXCEPT !.pc = "done", !.lj = "raised", !.resp = ErrorResp(e)])

\* lines 180-186: os.path.getmtime
Stat(t) ==
    /\ th[t].pc = "stat"
    /\ th' = IF fileExists
             THEN Set(t, [th[t] EXCEPT !.pc = "cmp", !.mt = fileMtime])
             ELSE Set(t, [th[t] EXCEPT !.pc = "reset_kb", !.gap = TRUE])
    /\ UNCHANGED <<File, Globals, nreq, nl>>

\* line 183: KB = []
ResetKB(t) ==
    /\ th[t].pc = "reset_kb"
    /\ KB' = <<>>
    /\ kbMt' = 0
    /\ th' = Set(t, [th[t] EXCEPT !.pc = "reset_ui",
                        !.changed = @ \cup (IF KB # <<>> THEN {"KB"} ELSE {})])
    /\ UNCHANGED <<File, UI, MTIME, nreq, nl>>

\* line 184: UI = {}
ResetUI(t) ==
    /\ th[t].pc = "reset_ui"
    /\ UI' = EmptyUI
    /\ th' = Set(t, [th[t] EXCEPT !.pc = "reset_mtime",
                        !.changed = @ \cup (IF UI # EmptyUI THEN {"UI"} ELSE {})])
    /\ UNCHANGED <<File, KB, kbMt, MTIME, nreq, nl>>

\* lines 185-186: MTIME = 0.0; return
ResetMTIME(t) ==
    /\ th[t].pc = "reset_mtime"
    /\ MTIME' = 0
    /\ th' = Set(t, [th[t] EXCEPT !.pc = Body(t), !.lj = "reset",
                        !.changed = @ \cup (IF MTIME # 0 THEN {"MTIME"} ELSE {})])
    /\ UNCHANGED <<File, KB, kbMt, UI, nreq, nl>>

\* the test taken for "the file is not newer than the load"
UnchangedIfOlder(mtime) == mtime < MTIME

\* lines 188-189: the modification time is the recorded one
Unchanged(mtime) == mtime = MTIME

Compare(t) ==
    /\ th[t].pc = "cmp"
    /\ th' = IF Unchanged(th[t].mt)
             THEN Set(t, [th[t] EXCEPT !.pc = Body(t), !.lj = "cached"])
             ELSE Set(t, [th[t] EXCEPT !.pc = "open"])
    /\ UNCHANGED <<File, Globals, nreq, nl>>

\* lines 191-192: open and json.load
Open(t) ==
    /\ th[t].pc = "open"
    /\ th' = IF ~fileExists THEN Raise(t, "FileNotFoundError")
             ELSE IF ~Docs[fileDoc].parses
                  THEN Set(t, [Raise(t, "JSONDecodeError")[t] EXCEPT !.opened = TRUE])
             ELSE Set(t, [th[t] EXCEPT !.pc = "ui", !.data = fileDoc,
                             !.dataMt = fileMtime, !.opened = TRUE])
    /\ UNCHANGED <<File, Globals, nreq, nl>>

\* line 194: UI = data.get("ui", {}) or {}
AssignUI(t) ==
    /\ th[t].pc = "ui"
    /\ IF ~Docs[th[t].data].isdict
       THEN /\ th' = Raise(t, "AttributeError")
            /\ UI' = UI
       ELSE /\ UI' = Docs[th[t].data].ui
            /\ th' = Set(t, [th[t] EXCEPT !.pc = "build",
                                !.changed = @ \cup (IF UI' # UI THEN {"UI"} ELSE {})])
    /\ UNCHANGED <<File, KB, kbMt, MTIME, nreq, nl>>

\* lines 196-229: the entries are built into the local kb
Build(t) ==
    /\ th[t].pc = "build"
    /\ th' = IF BuildRaises(Docs[th[t].data])
             THEN Raise(t, "AttributeError")
             ELSE Set(t, [th[t] EXCEPT !.pc = "kb"])
    /\ UNCHANGED <<File, Globals, nreq, nl>>

\* line 231: KB = kb
AssignKB(t) ==
    /\ th[t].pc = "kb"
    /\ KB' = BuildKB(Docs[th[t].data])
    /\ kbMt' = th[t].dataMt
    /\ th' = Set(t, [th[t] EXCEPT !.pc = "mtime",
                        !.changed = @ \cup (IF KB' # KB THEN {"KB"} ELSE {})])
    /\ UNCHANGED <<File, UI, MTIME, nreq, nl>>

\* line 232: MTIME = mtime
AssignMTIME(t) ==
    /\ th[t].pc = "mtime"
    /\ MTIME' = th[t].mt
    /\ th' = Set(t, [th[t] EXCEPT !.pc = Body(t), !.lj = "loaded",
                        !.changed = @ \cup (IF MTIME' # MTIME THEN {"MTIME"} ELSE {})])
    /\ UNCHANGED <<File, KB, kbMt, UI, nreq, nl>>

-----------------------------------------------------------------------------
(* The handlers after load_json *)

\* lines 238-247: one UI.get(key, default) per step, in the order of the keys
Config(t) ==
    /\ th[t].pc = "config"
    /\ LET k == ConfigKeys[Len(th[t].resp.cfg) + 1]
           v == IF UI[k] = Absent THEN ConfigDefault[k] ELSE UI[k]
           cfg == Append(th[t].resp.cfg, v)
       IN  th' = Set(t, [th[t] EXCEPT !.resp.cfg = cfg,
                            !.resp.status = IF Len(cfg) = Len(ConfigKeys) THEN "ok" ELSE @,
                            !.pc = IF Len(cfg) = Len(ConfigKeys) THEN "done" ELSE @])
    /\ UNCHANGED <<File, Globals, nreq, nl>>

\* line 253
Health(t) ==
    /\ th[t].pc = "health"
    /\ th' = Set(t, [th[t] EXCEPT !.pc = "done", !.resp.status = "ok",
                        !.resp.count = Len(KB)])
    /\ UNCHANGED <<File, Globals, nreq, nl>>

\* lines 259-262: the message is empty once stripped
ChatEmpty(t) ==
    /\ th[t].pc = "chat"
    /\ Len(Lower(Strip(th[t].msg))) = 0
    /\ th' = Set(t, [th[t] EXCEPT !.pc = "done", !.resp = PromptResp])
    /\ UNCHANGED <<File, Globals, nreq, nl>>

\* lines 264-294: top2_match over the current KB, then the decision
ChatMatch(t) ==
    /\ th[t].pc = "chat"
    /\ LET user_text == Lower(Strip(th[t].msg))
           cands == Candidates(KB, user_text, 1)
       IN  /\ Len(user_text) > 0
           /\ \E base \in FuzzChoices(cands, user_text, 1) :
                LET m == top2_match(cands, base)
                IN  th' = Set(t, [th[t] EXCEPT !.pc = "done",
                                     !.user_text = user_text, !.snap = KB,
                                     !.scored = m.scored,
                                     !.top1 = m.top1, !.top2 = m.top2,
                                     !.resp = Decide(m.top1, m.top2)])
    /\ UNCHANGED <<File, Globals, nreq, nl>>

\* what a thread does once it has a request
Step(t) ==
    \/ Stat(t)
    \/ ResetKB(t)
    \/ ResetUI(t)
    \/ ResetMTIME(t)
    \/ Compare(t)
    \/ Open(t)
    \/ AssignUI(t)
    \/ Build(t)
    \/ AssignKB(t)
    \/ AssignMTIME(t)
    \/ Config(t)
    \/ Health(t)
    \/ ChatEmpty(t)
    \/ ChatMatch(t)

FileChange ==
    \/ \E d \in DocIds : WriteFile(d)
    \/ RemoveFile
    \/ RestoreFile

\* the threads of the pool serve requests concurrently
Next ==
    \/ FileChange
    \/ \E t \in Threads, kind \in Kinds, msg \in SomeMessages : Start(t, kind, msg)
    \/ \E t \in Threads : Step(t)

Spec == Init /\ [][Next]_vars

\* one thread serves the requests one after the other
NextSeq ==
    \/ FileChange
    \/ \E kind \in Kinds, msg \in Messages : Start(1, kind, msg)
    \/ Step(1)

SpecSeq == Init /\ [][NextSeq]_vars

-----------------------------------------------------------------------------
(* norm_list applied to one input, and to its own result *)

NormChars == {" ", "a", "A"}
StringsUpTo(n) == UNION {[1..k -> NormChars] : k \in 0..n}
NormScalars ==
    {JNone, JNum(0), JNum(7)} \cup {JStr(s) : s \in StringsUpTo(MaxStrLen)}
NormInputs ==
    NormScalars \cup {JList(l) : l \in UNION {[1..k -> NormScalars] : k \in 0..MaxListLen}}

InitNorm ==
    /\ fileExists = TRUE
    /\ fileMtime = 1
    /\ fileDoc = 1
    /\ KB = <<>>
    /\ UI = EmptyUI
    /\ MTIME = 0
    /\ kbMt = 0
    /\ th = [t \in Threads |-> Idle]
    /\ nreq = 0
    /\ nl \in {[NlIdle EXCEPT !.pc = "in", !.x = x] : x \in NormInputs}

NormCall ==
    /\ nl.pc = "in"
    /\ nl' = [nl EXCEPT !.pc = "out", !.out = norm_list(nl.x)]
    /\ UNCHANGED <<File, Globals, th, nreq>>

NormAgain ==
    /\ nl.pc = "out"
    /\ nl' = [nl EXCEPT !.pc = "twice", !.again = norm_list(AsList(nl.out))]
    /\ UNCHANGED <<File, Globals, th, nreq>>

NextNorm == NormCall \/ NormAgain

SpecNorm == InitNorm /\ [][NextNorm]_vars

-----------------------------------------------------------------------------
(* Properties *)

\* thread t has returned from chat after top2_match ran
Matched(t) ==
    /\ th[t].pc = "done"
    /\ th[t].kind = "chat"
    /\ th[t].resp.status = "ok"
    /\ Len(th[t].user_text) > 0

\* the message of thread t's chat request is empty once stripped
Blank(t) == th[t].kind = "chat" /\ Len(Strip(th[t].msg)) = 0

\* C1: a chat request never returns the accepted response (used_context true,
\* sources non-empty) when the best score is below 80 or leads the second
\* score by less than 4 (the second score being 0 without a second
\* candidate); then, and without a best candidate, it returns the fixed
\* clarification response with used_context false and no sources.
C1_DecisionPolicy ==
    \A t \in Threads :
        Matched(t) =>
            LET s1 == th[t].top1.score
                s2 == th[t].top2.score
                r == th[t].resp
                reject == ~th[t].top1.has \/ s1 < 80 \/ s1 - s2 < 4
            IN  /\ (~th[t].top2.has => s2 = 0)
                /\ (r.used_context \/ r.sources # <<>>) => ~reject
                /\ reject => /\ r.answer = CLARIFY_TEXT
                             /\ r.used_context = FALSE
                             /\ r.sources = <<>>

\* C1's case: two candidates, both at 80 or more, less than 4 apart: clarification
C1_Witness ==
    \E t \in Threads :
        /\ Matched(t)
        /\ th[t].top2.has
        /\ th[t].top2.score >= 80
        /\ th[t].top1.score - th[t].top2.score < 4
        /\ th[t].resp = ClarifyResp

\* the config response built from one UI mapping
ConfigOf(u) ==
    [i \in 1..Len(ConfigKeys) |->
        IF u[ConfigKeys[i]] = Absent THEN ConfigDefault[ConfigKeys[i]]
        ELSE u[ConfigKeys[i]]]

\* the UI mappings of the load generations: the empty one and each document's
Generations == {EmptyUI} \cup {Docs[d].ui : d \in DocIds}

\* C2: with reloads running concurrently, what a request reads comes from one
\* load generation: the keys of a config response are never taken from the UI
\* mappings of two different generations.
C2_OneGeneration ==
    \A t \in Threads :
        (th[t].pc = "done" /\ th[t].kind = "config" /\ th[t].resp.status = "ok")
            => \E u \in Generations : th[t].resp.cfg = ConfigOf(u)

\* C3: a load_json call that fails after the stat (bad JSON, wrong top-level
\* type, malformed list element) has changed none of KB, UI and MTIME.
C3_FailedReloadChangesNothing ==
    \A t \in Threads : th[t].lj = "raised" => th[t].changed = {}

\* the positions inside load_json
LoadPcs ==
    {"stat", "cmp", "open", "ui", "build", "kb", "mtime",
     "reset_kb", "reset_ui", "reset_mtime"}

\* C4: when the file is unreachable (missing at the stat, or removed between
\* the stat and the read) load_json does not raise, and it returns with
\* KB = [], UI = {}, MTIME = 0.0.
C4_UnreachableFailsSoft ==
    \A t \in Threads :
        /\ ~(th[t].lj = "raised" /\ th[t].resp.err = "FileNotFoundError")
        /\ (/\ th[t].lj = "reset"
            /\ th[t].pc = Body(t)
            /\ \A o \in Threads \ {t} : th[o].pc \notin LoadPcs)
              => (KB = <<>> /\ UI = EmptyUI /\ MTIME = 0)

\* C5: a chat request that found the file missing and is answered before the
\* file reappears returns used_context false and no sources, and for a
\* message that is not blank the clarification text, never an entry's answer.
C5_MissingMeansClarify ==
    \A t \in Threads :
        (th[t].pc = "done" /\ th[t].kind = "chat" /\ th[t].gap) =>
            /\ th[t].resp.status = "ok"
            /\ th[t].resp.used_context = FALSE
            /\ th[t].resp.sources = <<>>
            /\ (~Blank(t) => th[t].resp.answer = CLARIFY_TEXT)

\* C6: a load_json call that finds the file's modification time equal to the
\* recorded MTIME returns at once: it opens no file and leaves KB, UI and
\* MTIME as they are, however often it is repeated.
C6_UnchangedFileIsNotReloaded ==
    [][\A t \in Threads :
          (th[t].pc = "cmp" /\ th[t].mt = MTIME /\ th'[t].pc # "cmp") =>
              /\ th'[t].pc = Body(t)
              /\ th'[t].lj = "cached"
              /\ th'[t].opened = FALSE
              /\ th'[t].changed = {}
              /\ KB' = KB
              /\ UI' = UI
              /\ MTIME' = MTIME]_vars

\* C6's case: after a successful load, a later call has returned on the
\* unchanged modification time
C6_Witness ==
    \E t \in Threads :
        /\ th[t].lj = "cached"
        /\ th[t].mt = MTIME
        /\ MTIME > 0
        /\ KB # <<>>
        /\ nreq >= 2

\* C7: a chat request with a blank message returns the fixed prompt and does
\* not touch the knowledge base: its load_json opens no file, changes none of
\* KB, UI and MTIME and cannot fail on the state of the file.
C7_BlankTouchesNothing ==
    \A t \in Threads :
        Blank(t) =>
            /\ th[t].opened = FALSE
            /\ th[t].changed = {}
            /\ th[t].lj # "raised"
            /\ (th[t].pc = "done" => th[t].resp = PromptResp)

\* C8: norm_list(x) holds no empty string, and norm_list(norm_list(x)) is
\* norm_list(x), for every input x.
C8_NoBlankAndIdempotent ==
    /\ nl.pc \in {"out", "twice"} => \A i \in 1..Len(nl.out) : Len(nl.out[i]) > 0
    /\ nl.pc = "twice" => nl.again = nl.out

\* C9: whenever no load_json call is in progress, the recorded MTIME is the
\* modification time of the file version KB was built from; so a snapshot of
\* an older version is never left tagged with the newest modification time.
C9_MtimeTagsSnapshot ==
    (\A t \in Threads : th[t].pc \notin LoadPcs) => MTIME = kbMt

\* the indices of the entries of kb whose composite query text is not empty
NonEmpty(kb) == {i \in 1..Len(kb) : Len(build_query_text(kb[i])) > 0}

\* the number of keywords of item that occur in user_text
OverlapOf(item, user_text) ==
    Cardinality({j \in 1..Len(item.keywords) : IsSub(item.keywords[j], user_text)})

\* what C10 says of the entries scored and of the two slots returned, up to
\* the order of the two returned scores
Top2Result(t) ==
    LET kb == th[t].snap
        u == th[t].user_text
        sc == th[t].scored
        top1 == th[t].top1
        top2 == th[t].top2
        n == Len(sc)
    IN  /\ n = Cardinality(NonEmpty(kb))
        /\ {sc[k].item : k \in 1..n} = {kb[i] : i \in NonEmpty(kb)}
        /\ \A k \in 1..n :
              LET ov == OverlapOf(sc[k].item, u)
                  bonus == IF 4 * ov < 16 THEN 4 * ov ELSE 16
              IN  \E b \in 0..100 :
                     sc[k].score = b + bonus - (IF ov = 0 THEN 5 ELSE 0)
        /\ IF n = 0 THEN top1 = NoTop
           ELSE \E k1 \in 1..n :
                  /\ top1 = [score |-> sc[k1].score, has |-> TRUE, item |-> sc[k1].item]
                  /\ \A j \in 1..n : sc[j].score <= top1.score
                  /\ IF n = 1 THEN top2 = NoTop
                     ELSE \E k2 \in (1..n) \ {k1} :
                            /\ top2 = [score |-> sc[k2].score, has |-> TRUE,
                                       item |-> sc[k2].item]
                            /\ \A j \in (1..n) \ {k1} : sc[j].score <= top2.score
        /\ top1.has => Len(build_query_text(top1.item)) > 0
        /\ top2.has => Len(build_query_text(top2.item)) > 0

\* C10, as stated: top2_match scores exactly the entries with a non-empty
\* query text, by the formula, returns the highest and the second highest,
\* (0.0, none) in a slot without candidate, and the best score returned is
\* never lower than the second score returned.
C10_AsStated ==
    \A t \in Threads :
        Matched(t) => (Top2Result(t) /\ th[t].top1.score >= th[t].top2.score)

\* C10, amended: the same, the best score being at least the second score
\* whenever there is a second candidate.
C10_Top2 ==
    \A t \in Threads :
        Matched(t) =>
            /\ Top2Result(t)
            /\ th[t].top2.has => th[t].top1.score >= th[t].top2.score

\* C10's case: a snapshot with an entry of empty query text and several
\* candidates, two of them returned
C10_Witness ==
    \E t \in Threads :
        /\ Matched(t)
        /\ NonEmpty(th[t].snap) # 1..Len(th[t].snap)
        /\ Len(th[t].scored) >= 3
        /\ th[t].top2.has
        /\ th[t].top1.score > th[t].top2.score

====
